---- MODULE Spec2Model ----
(***************************************************************************)
(* Smart Factory Angular front end: the shared auth-state holder, the      *)
(* outgoing-request interceptor and the screen controllers (activity,      *)
(* machines, event form, admin), each as a state machine over its signals  *)
(* and its requests in flight.                                             *)
(*                                                                         *)
(* JavaScript values.  A nullable string is the record [tag, val] with     *)
(* tag in {"null", "undefined", "string"}; val is a sequence of strings.   *)
(* A token string is held as the result of token.split('.'), the sequence  *)
(* of its segments; a message is held as the list of the parts it is       *)
(* joined from.                                                            *)
(***************************************************************************)
EXTENDS Integers, Sequences, FiniteSets, TLC

VARIABLES
    \* ---- AuthService / localStorage / HTTP pipeline
    localStorage,      \* value under key 'token' (Null when the key is absent)
    _token,            \* AuthService._token signal
    sent,              \* requests handed to the backend by the interceptor chain
    authLast,          \* observation: the last AuthService operation performed
    \* ---- ActivityComponent
    act_pc,            \* "constructed" | "ready" (ngOnInit has run)
    act_loading, act_error, act_errorDetail,
    act_machines, act_items,
    selectedMachineId, selectedPeriod,
    act_calls,         \* one record per refresh() call (the closure of tryNext)
    act_loadMachines,  \* state of the getMachines() request of loadMachines()
    act_last,          \* observation: the last response handler that ran
    \* ---- MachinesComponent
    mach_pc,
    mach_loading, mach_error, _machines, _filter, newMachine,
    editId, editForm,
    mach_reqs,         \* requests of the screen that are in flight
    \* ---- EventNewComponent
    ev_pc,
    ev_machines, ev_loading, ev_error, ev_success, ev_payload,
    ev_reqs,
    ev_nav,            \* "none" | "scheduled" (setTimeout pending) | "activity"
    \* ---- AdminComponent
    adm_pc,
    users, adm_email, adm_password, adm_role, adm_error,
    adm_reqs,
    \* ---- MachineDetailComponent
    det_pc,
    det_loading, det_error, machine, events, kpiDay, kpiAll,
    det_reqs,          \* the four requests of fetch(id), each with its outcome
    det_order,         \* observation: the requests in the order they responded
    \* ---- Router and LoginComponent
    activated,         \* component of the activated route ("none" before any)
    nav_calls,         \* navigateByUrl calls of LoginComponent, not yet resolved
    login_error, login_loading,
    login_reqs,        \* POST /auth/login requests in flight
    login_last,        \* observation: the last LoginComponent handler that ran
    \* ---- DashboardComponent and the query parameters of /machines
    dash_pc,           \* "constructed" | "ready" | "destroyed"
    dash_loading, dash_error, summary, pieData,
    dash_inflight,     \* GET /dashboard/summary requests in flight
    dash_nav,          \* router.navigate calls of the donut, not yet resolved
    dash_click,        \* observation: activeEls of the last click on the donut
    queryStatus        \* ?status= of the current URL (Null when absent)

authVars == <<localStorage, _token, sent, authLast>>
actVars  == <<act_pc, act_loading, act_error, act_errorDetail, act_machines,
              act_items, selectedMachineId, selectedPeriod, act_calls,
              act_loadMachines, act_last>>
machVars == <<mach_pc, mach_loading, mach_error, _machines, _filter, newMachine,
              editId, editForm, mach_reqs>>
evVars   == <<ev_pc, ev_machines, ev_loading, ev_error, ev_success, ev_payload,
              ev_reqs, ev_nav>>
admVars  == <<adm_pc, users, adm_email, adm_password, adm_role, adm_error,
              adm_reqs>>
detVars  == <<det_pc, det_loading, det_error, machine, events, kpiDay, kpiAll,
              det_reqs, det_order>>
navVars  == <<activated, nav_calls, login_error, login_loading, login_reqs,
              login_last>>
dashVars == <<dash_pc, dash_loading, dash_error, summary, pieData,
              dash_inflight, dash_nav, dash_click, queryStatus>>
vars == <<authVars, actVars, machVars, evVars, admVars, detVars, navVars,
          dashVars>>

----------------------------------------------------------------------------
\* JavaScript values

Null      == [tag |-> "null", val |-> <<>>]
Undefined == [tag |-> "undefined", val |-> <<>>]
Str(s)    == [tag |-> "string", val |-> s]

\* The empty string '': ''.split('.') is [''].
EmptyString == Str(<<"">>)

\* !!v for a nullable string
Truthy(v) == v.tag = "string" /\ v # EmptyString

\* String(v), as localStorage.setItem applies it to its value argument
ToDOMString(v) ==
    CASE v.tag = "string"    -> v
      [] v.tag = "undefined" -> Str(<<"undefined">>)
      [] OTHER               -> Str(<<"null">>)

----------------------------------------------------------------------------
\* Bounds

MaxSent == 2
MaxRefresh == 2
MaxMachines == 2
MaxInflight == 1

----------------------------------------------------------------------------
\* JWT decoding (services/api.ts, services/auth.service.ts)

\* Token strings of the model, each as its split('.') result.
\*   ""        the empty string            "abc"      no '.' at all
\*   "hdr."    empty payload segment       bad64      payload is not base64
\*   notjson   payload decodes to text that is not JSON
\*   jnull     payload decodes to the JSON text null
\*   jnorole / joper / jadmin   payload decodes to a JSON object
Tokens ==
    { <<"">>, <<"abc">>, <<"hdr", "">>,
      <<"hdr", "bad64", "sig">>, <<"hdr", "notjson", "sig">>,
      <<"hdr", "jnull", "sig">>, <<"hdr", "jnorole", "sig">>,
      <<"hdr", "joper", "sig">>, <<"hdr", "jadmin", "sig">> }

\* Outcome of an expression that may throw
Ret(v)  == [thrown |-> FALSE, value |-> v]
Thrown  == [thrown |-> TRUE, value |-> <<>>]

\* Decoded payloads
PNull           == [tag |-> "null", sub |-> Undefined, role |-> Undefined]
PObj(sub, role) == [tag |-> "object", sub |-> sub, role |-> role]

\* token.split('.')[1]
PayloadPart(token) ==
    IF Len(token.val) >= 2 THEN Str(<<token.val[2]>>) ELSE Undefined

\* atob(): throws on a character outside the base64 alphabet, otherwise the
\* decoded bytes
atob(seg) ==
    CASE seg = "bad64"   -> Thrown
      [] seg = ""        -> Ret("")
      [] seg = "notjson" -> Ret("not json")
      [] seg = "jnull"   -> Ret("null")
      [] seg = "jnorole" -> Ret("{}")
      [] seg = "joper"   -> Ret("{sub:2,role:operator}")
      [] seg = "jadmin"  -> Ret("{sub:1,role:admin}")
      [] OTHER           -> Ret("bytes")

\* JSON.parse(): throws on text that is not JSON
JSONparse(text) ==
    CASE text = "null"                  -> Ret(PNull)
      [] text = "{}"                    -> Ret(PObj(Undefined, Undefined))
      [] text = "{sub:2,role:operator}" -> Ret(PObj(Str(<<"2">>), Str(<<"operator">>)))
      [] text = "{sub:1,role:admin}"    -> Ret(PObj(Str(<<"1">>), Str(<<"admin">>)))
      [] OTHER                          -> Thrown

\* base64UrlDecode: pads, maps -_ to +/, atob(); the UTF-8 step has its own
\* try/catch and falls back to the binary string
base64UrlDecode(input) == atob(input)

\* The try block of decodeJwt (api.ts)
decodeJwtTry(token) ==
    LET payloadPart == PayloadPart(token) IN
    IF ~Truthy(payloadPart) THEN Ret(PNull)
    ELSE LET json == base64UrlDecode(payloadPart.val[1]) IN
         IF json.thrown THEN Thrown ELSE JSONparse(json.value)

decodeJwt(token) ==
    IF ~Truthy(token) THEN Ret(PNull)
    ELSE LET r == decodeJwtTry(token) IN
         IF r.thrown THEN Ret(PNull) ELSE r

\* The try block of decodeJwt (auth.service.ts): base.replace throws a
\* TypeError when the token has no second segment
decodeJwtSimpleTry(token) ==
    LET base == PayloadPart(token) IN
    IF base.tag # "string" THEN Thrown
    ELSE LET json == atob(base.val[1]) IN
         IF json.thrown THEN Thrown ELSE JSONparse(json.value)

decodeJwtSimple(token) ==
    IF ~Truthy(token) THEN Ret(PNull)
    ELSE LET r == decodeJwtSimpleTry(token) IN
         IF r.thrown THEN Ret(PNull) ELSE r

----------------------------------------------------------------------------
\* AuthService selectors

payload    == decodeJwt(_token)
isLoggedIn == Truthy(_token)
role ==
    IF payload.thrown THEN Thrown
    ELSE IF payload.value.tag = "null" THEN Ret(Null)
    ELSE IF payload.value.role.tag = "string" THEN Ret(payload.value.role)
    ELSE Ret(Null)
token == _token

\* Number(sub) of a payload's sub claim
NumberOfSub(sub) ==
    CASE sub = "1" -> 1
      [] sub = "2" -> 2
      [] OTHER     -> 0

\* computed userId: sub ? Number(sub) : null
userId ==
    LET sub == IF payload.value.tag = "null" THEN Undefined
               ELSE payload.value.sub
    IN IF Truthy(sub) THEN [tag |-> "number", val |-> <<NumberOfSub(sub.val[1])>>]
       ELSE Null

----------------------------------------------------------------------------
\* AuthService operations, page reload, interceptor

LoginInputs == {Str(t) : t \in Tokens} \cup {Undefined}

InitAuthVars ==
    /\ localStorage \in {Null} \cup {Str(t) : t \in Tokens}
    /\ _token = localStorage
    /\ sent = <<>>
    /\ authLast = [op |-> "init", arg |-> Null, reloaded |-> FALSE]

\* Fault injection: login that sets the signal without persisting
loginMutNoPersist(accessToken) ==
    /\ UNCHANGED localStorage
    /\ _token' = accessToken
    /\ authLast' = [op |-> "login", arg |-> accessToken, reloaded |-> FALSE]

login(accessToken) ==
    /\ localStorage' = ToDOMString(accessToken)
    /\ _token' = accessToken
    /\ authLast' = [op |-> "login", arg |-> accessToken, reloaded |-> FALSE]

\* Fault injection: logout that leaves the signal as it is
logoutMutKeepSignal ==
    /\ localStorage' = Null
    /\ UNCHANGED _token
    /\ authLast' = [op |-> "logout", arg |-> Null, reloaded |-> FALSE]

\* Fault injection: logout that leaves the stored entry as it is
logoutMutKeepStorage ==
    /\ UNCHANGED localStorage
    /\ _token' = Null
    /\ authLast' = [op |-> "logout", arg |-> Null, reloaded |-> FALSE]

logout ==
    /\ localStorage' = Null
    /\ _token' = Null
    /\ authLast' = [op |-> "logout", arg |-> Null, reloaded |-> FALSE]

\* A page reload re-creates AuthService: _token = localStorage.getItem('token')
Reload ==
    /\ _token' = localStorage
    /\ authLast' = [authLast EXCEPT !.reloaded = TRUE]
    /\ UNCHANGED <<localStorage, sent>>

\* Requests the application builds (no source request sets Authorization).
\* The interceptor is the one of provideHttpClient(withInterceptors([...])).
Requests ==
    { [method |-> "GET", url |-> "/machines", headers |-> {}],
      [method |-> "POST", url |-> "/auth/login",
       headers |-> {<<"Content-Type", <<"application/x-www-form-urlencoded">>>>}] }

\* req.clone({ setHeaders }) : replaces the header of that name
SetHeader(req, name, value) ==
    [req EXCEPT !.headers = {h \in @ : h[1] # name} \cup {<<name, value>>}]

\* `Bearer ${token}`
Bearer(t) == <<"Bearer">> \o t.val

\* Fault injection: the header added whether or not a token is held
authInterceptorMutAlways(req) ==
    SetHeader(req, "Authorization", Bearer(token))

authInterceptor(req) ==
    IF ~Truthy(token) THEN req
    ELSE SetHeader(req, "Authorization", Bearer(token))

Send(req) ==
    /\ Len(sent) < MaxSent
    /\ sent' = Append(sent, [orig |-> req, final |-> authInterceptor(req),
                             tokenAtSend |-> _token])
    /\ UNCHANGED <<localStorage, _token, authLast>>

\* Everything outside the auth service and the HTTP pipeline
AuthFrame == UNCHANGED <<actVars, machVars, evVars, admVars,
                       detVars, navVars, dashVars>>

AuthLogin  == (\E x \in LoginInputs : login(x)) /\ UNCHANGED sent /\ AuthFrame
AuthLogout == logout /\ UNCHANGED sent /\ AuthFrame
AuthReload == Reload /\ AuthFrame
AuthSend   == (\E req \in Requests : Send(req)) /\ AuthFrame

NextAuth ==
    \/ AuthLogin
    \/ AuthLogout
    \/ AuthReload
    \/ AuthSend

----------------------------------------------------------------------------
\* HTTP errors delivered to error handlers: status ("" when 0 / absent), the
\* backend's error.detail (nullable) and HttpErrorResponse.message

Errs ==
    { [status |-> "", detail |-> Null, message |-> "Http failure: unknown error"],
      [status |-> "500", detail |-> Str(<<"window too large">>),
       message |-> "Http failure response: 500"] }

----------------------------------------------------------------------------
\* ActivityComponent (pages/activity/activity.ts)

PeriodKeys == {"1h", "24h", "7d", "30d", "1y"}

periods ==
    << [key |-> "1h",  minutes |-> 60],
       [key |-> "24h", minutes |-> 24 * 60],
       [key |-> "7d",  minutes |-> 7 * 24 * 60],
       [key |-> "30d", minutes |-> 30 * 24 * 60],
       [key |-> "1y",  minutes |-> 365 * 24 * 60] >>

\* computed minutes: periods.find(p => p.key === selectedPeriod)?.minutes ?? 60
minutesOf(period) ==
    IF \E i \in 1..Len(periods) : periods[i].key = period
    THEN periods[CHOOSE i \in 1..Len(periods) :
                    /\ periods[i].key = period
                    /\ \A j \in 1..(i - 1) : periods[j].key # period].minutes
    ELSE 60

MathMax(a, b) == IF a >= b THEN a ELSE b

\* Values the machine <select> hands to onMachineChange
MachineVals ==
    { [t |-> "number", n |-> 0, s |-> ""], [t |-> "number", n |-> 1, s |-> ""],
      [t |-> "number", n |-> -1, s |-> ""],
      [t |-> "string", n |-> 0, s |-> "1"], [t |-> "string", n |-> 0, s |-> "abc"],
      [t |-> "null", n |-> 0, s |-> ""] }

\* parseInt(String(val ?? '0'), 10) || 0
parseIntOr0(val) ==
    CASE val.t = "null"                    -> 0
      [] val.t = "string" /\ val.s = "1"   -> 1
      [] OTHER                             -> 0

\* Fault injection: the fallbacks built with >= in place of >
FallbacksMutGe(minutes) ==
    <<minutes>>
    \o (IF minutes >= 43200 THEN <<43200>> ELSE <<>>)
    \o (IF minutes >= 10080 THEN <<10080>> ELSE <<>>)
    \o (IF minutes >= 1440 THEN <<1440>> ELSE <<>>)

\* const fallbacks = [minutes]; if (minutes > 43200) fallbacks.push(43200); ...
Fallbacks(minutes) ==
    <<minutes>>
    \o (IF minutes > 43200 THEN <<43200>> ELSE <<>>)
    \o (IF minutes > 10080 THEN <<10080>> ELSE <<>>)
    \o (IF minutes > 1440 THEN <<1440>> ELSE <<>>)

\* setError(prefix, err)
setError(prefix, err) ==
    LET status == IF err.status # "" THEN <<"HTTP", err.status>> ELSE <<>>
        detail == IF err.detail.tag = "string" THEN err.detail
                  ELSE Str(<<err.message>>)
    IN /\ act_error' = Str(<<prefix>> \o status)
       /\ act_errorDetail' = detail

\* refresh(), reading the selection given: the call record is the closure of
\* tryNext (mid, fallbacks, idx) with the request of tryNext(0) in flight
refresh(selMachine, selPeriod) ==
    LET minutes == MathMax(1, minutesOf(selPeriod))
        mid     == IF selMachine < 0 THEN 0 ELSE selMachine
        fallbacks == Fallbacks(minutes)
    IN /\ act_loading' = TRUE
       /\ act_error' = Null
       /\ act_errorDetail' = Null
       /\ act_calls' = Append(act_calls,
              [mid |-> mid, period |-> selPeriod, fallbacks |-> fallbacks,
               idx |-> 1, st |-> "pending",
               trace |-> << <<"req", fallbacks[1]>> >>])

InitActVars ==
    /\ act_pc = "constructed"
    /\ act_loading = FALSE
    /\ act_error = Null
    /\ act_errorDetail = Null
    /\ act_machines = <<>>
    /\ act_items = <<>>
    /\ selectedMachineId = 0
    /\ selectedPeriod = "1h"
    /\ act_calls = <<>>
    /\ act_loadMachines = "none"
    /\ act_last = [h |-> "none", call |-> 0, data |-> <<>>, retried |-> FALSE]

\* Everything outside the activity screen
ActFrame == UNCHANGED <<authVars, machVars, evVars, admVars,
                       detVars, navVars, dashVars>>

\* ngOnInit: loadMachines(); refresh()
ActNgOnInit ==
    /\ act_pc = "constructed"
    /\ act_pc' = "ready"
    /\ act_loadMachines' = "pending"
    /\ refresh(selectedMachineId, selectedPeriod)
    /\ UNCHANGED <<act_machines, act_items, selectedMachineId, selectedPeriod,
                   act_last>>
    /\ ActFrame

\* loadMachines: next: (list) => machines.set(list)
ActLoadMachinesNext ==
    /\ act_loadMachines = "pending"
    /\ \E list \in {<<>>, <<1>>} : act_machines' = list
    /\ act_loadMachines' = "done"
    /\ act_last' = [h |-> "machines-next", call |-> 0, data |-> <<>>,
                    retried |-> FALSE]
    /\ UNCHANGED <<act_pc, act_loading, act_error, act_errorDetail, act_items,
                   selectedMachineId, selectedPeriod, act_calls>>
    /\ ActFrame

\* loadMachines: error: (err) => setError('Impossible de charger les machines', err)
ActLoadMachinesError ==
    /\ act_loadMachines = "pending"
    /\ \E err \in Errs : setError("Impossible de charger les machines", err)
    /\ act_loadMachines' = "done"
    /\ act_last' = [h |-> "machines-error", call |-> 0, data |-> <<>>,
                    retried |-> FALSE]
    /\ UNCHANGED <<act_pc, act_loading, act_machines, act_items,
                   selectedMachineId, selectedPeriod, act_calls>>
    /\ ActFrame

\* onMachineChange(val)
onMachineChange(val) ==
    LET id == IF val.t = "number" THEN val.n ELSE parseIntOr0(val) IN
    /\ selectedMachineId' = id
    /\ refresh(id, selectedPeriod)
    /\ UNCHANGED selectedPeriod

\* onPeriodChange(val)
onPeriodChange(val) ==
    /\ selectedPeriod' = val
    /\ refresh(selectedMachineId, val)
    /\ UNCHANGED selectedMachineId

ActUserFrame ==
    /\ act_pc = "ready"
    /\ Len(act_calls) < MaxRefresh
    /\ UNCHANGED <<act_pc, act_machines, act_items, act_loadMachines, act_last>>
    /\ ActFrame

ActOnMachineChange == (\E val \in MachineVals : onMachineChange(val)) /\ ActUserFrame
ActOnPeriodChange  == (\E val \in PeriodKeys : onPeriodChange(val)) /\ ActUserFrame
ActRefresh ==
    /\ refresh(selectedMachineId, selectedPeriod)
    /\ UNCHANGED <<selectedMachineId, selectedPeriod>>
    /\ ActUserFrame

\* Window of the request call c has in flight
Window(c) == act_calls[c].fallbacks[act_calls[c].idx]

\* Bodies the backend may answer callApi(mid, m) with
Responses(c) ==
    { <<>>, <<[machine_id |-> act_calls[c].mid, minutes |-> Window(c)]>> }

\* Fault injection: a success handler that goes on to the next window
CascadeNextMutRetry(c, data) ==
    /\ act_items' = data
    /\ act_loading' = (act_calls[c].idx < Len(act_calls[c].fallbacks))
    /\ act_calls' =
          IF act_calls[c].idx < Len(act_calls[c].fallbacks)
          THEN [act_calls EXCEPT
                  ![c].idx = @ + 1,
                  ![c].trace = @ \o << <<"ok", Window(c)>>,
                                       <<"req", act_calls[c].fallbacks[act_calls[c].idx + 1]>> >>]
          ELSE [act_calls EXCEPT ![c].st = "ok",
                                 ![c].trace = Append(@, <<"ok", Window(c)>>)]
    /\ UNCHANGED <<act_error, act_errorDetail>>

\* tryNext: next: (data) => { items.set(data); loading.set(false); }
CascadeNext(c, data) ==
    /\ act_items' = data
    /\ act_loading' = FALSE
    /\ act_calls' = [act_calls EXCEPT ![c].st = "ok",
                                      ![c].trace = Append(@, <<"ok", Window(c)>>)]
    /\ UNCHANGED <<act_error, act_errorDetail>>

\* Fault injection: the last failure reports the error but leaves loading on
CascadeErrorMutKeepLoading(c, err) ==
    IF act_calls[c].idx < Len(act_calls[c].fallbacks)
    THEN /\ act_calls' = [act_calls EXCEPT
                ![c].idx = @ + 1,
                ![c].trace = @ \o << <<"fail", Window(c)>>,
                                     <<"req", act_calls[c].fallbacks[act_calls[c].idx + 1]>> >>]
         /\ UNCHANGED <<act_error, act_errorDetail, act_loading>>
    ELSE /\ setError("Erreur chargement activite", err)
         /\ UNCHANGED act_loading
         /\ act_calls' = [act_calls EXCEPT
                ![c].st = "failed",
                ![c].trace = Append(@, <<"fail", Window(c)>>)]

\* tryNext: error: (err) => idx + 1 < fallbacks.length ? tryNext(idx + 1)
\*                          : (setError(...), loading.set(false))
\* (idx is 1-based here; tryNext's own guard, m == null, never holds: the
\* handler only recurses to an index inside fallbacks)
CascadeError(c, err) ==
    IF act_calls[c].idx < Len(act_calls[c].fallbacks)
    THEN /\ act_calls' = [act_calls EXCEPT
                ![c].idx = @ + 1,
                ![c].trace = @ \o << <<"fail", Window(c)>>,
                                     <<"req", act_calls[c].fallbacks[act_calls[c].idx + 1]>> >>]
         /\ UNCHANGED <<act_error, act_errorDetail, act_loading>>
    ELSE /\ setError("Erreur chargement activite", err)
         /\ act_loading' = FALSE
         /\ act_calls' = [act_calls EXCEPT
                ![c].st = "failed",
                ![c].trace = Append(@, <<"fail", Window(c)>>)]

\* The request of call c answers with a body
ActRespNextOf(c) ==
    /\ c \in 1..Len(act_calls)
    /\ act_calls[c].st = "pending"
    /\ \E data \in Responses(c) :
          /\ CascadeNext(c, data)
          /\ act_last' = [h |-> "next", call |-> c, data |-> data,
                          retried |-> FALSE]
    /\ UNCHANGED <<act_pc, act_machines, selectedMachineId, selectedPeriod,
                   act_loadMachines>>
    /\ ActFrame

ActRespNext == \E c \in 1..Len(act_calls) : ActRespNextOf(c)

\* The request of call c fails
ActRespErrorOf(c) ==
    /\ c \in 1..Len(act_calls)
    /\ act_calls[c].st = "pending"
    /\ \E err \in Errs : CascadeError(c, err)
    /\ act_last' = [h |-> "error", call |-> c, data |-> <<>>,
                    retried |-> act_calls[c].idx < Len(act_calls[c].fallbacks)]
    /\ UNCHANGED <<act_pc, act_machines, act_items, selectedMachineId,
                   selectedPeriod, act_loadMachines>>
    /\ ActFrame

ActRespError == \E c \in 1..Len(act_calls) : ActRespErrorOf(c)

NextActivity ==
    \/ ActNgOnInit
    \/ ActLoadMachinesNext
    \/ ActLoadMachinesError
    \/ ActOnMachineChange
    \/ ActOnPeriodChange
    \/ ActRefresh
    \/ ActRespNext
    \/ ActRespError

----------------------------------------------------------------------------
\* MachinesComponent (pages/machines/machines.ts)

Statuses == {"running", "stopped", "setup"}
Filters  == {"all"} \cup Statuses

DraftDefault ==
    [name |-> "", code |-> "", status |-> "setup", target_rate_per_hour |-> 0]

InitMachVars ==
    /\ mach_pc = "constructed"
    /\ mach_loading = FALSE
    /\ mach_error = Null
    /\ _machines = <<>>
    /\ _filter = "all"
    /\ newMachine = DraftDefault
    /\ editId = Null
    /\ editForm = [k \in {} |-> ""]
    /\ mach_reqs = <<>>

\* Everything outside the machines screen
MachFrame == UNCHANGED <<authVars, actVars, evVars, admVars,
                       detVars, navVars, dashVars>>

\* Machine lists the backend may return for GET /machines
Machine(i, st) ==
    [id |-> i, name |-> "machine", code |-> "code", status |-> st,
     target_rate_per_hour |-> 60]

MachineLists ==
    UNION { { [i \in 1..n |-> Machine(i, f[i])] : f \in [1..n -> Statuses] } :
            n \in 0..MaxMachines }

\* list.filter(m => m.status === f)
RECURSIVE ArrayFilterStatus(_, _)
ArrayFilterStatus(list, f) ==
    IF list = <<>> THEN <<>>
    ELSE (IF Head(list).status = f THEN <<Head(list)>> ELSE <<>>)
         \o ArrayFilterStatus(Tail(list), f)

\* Fault injection: 'all' treated as a status
filteredMutNoAll == ArrayFilterStatus(_machines, _filter)

\* computed filtered
filtered ==
    IF _filter = "all" THEN _machines
    ELSE ArrayFilterStatus(_machines, _filter)

\* A request of the screen goes in flight
MachIssue(reqs, kind, body) == Append(reqs, [kind |-> kind, body |-> body])

RemoveAt(seq, i) == SubSeq(seq, 1, i - 1) \o SubSeq(seq, i + 1, Len(seq))

\* refresh(), issuing GET /machines on top of the requests given
mach_refresh(reqs) ==
    /\ mach_loading' = TRUE
    /\ mach_error' = Null
    /\ mach_reqs' = MachIssue(reqs, "getMachines", DraftDefault)

MachNgOnInit ==
    /\ mach_pc = "constructed"
    /\ mach_pc' = "ready"
    /\ mach_refresh(mach_reqs)
    /\ UNCHANGED <<_machines, _filter, newMachine, editId, editForm>>
    /\ MachFrame

MachRefresh ==
    /\ mach_pc = "ready"
    /\ Len(mach_reqs) < MaxInflight
    /\ mach_refresh(mach_reqs)
    /\ UNCHANGED <<mach_pc, _machines, _filter, newMachine, editId, editForm>>
    /\ MachFrame

\* setFilter(f)
MachSetFilter ==
    /\ mach_pc = "ready"
    /\ \E f \in Filters : _filter' = f
    /\ UNCHANGED <<mach_pc, mach_loading, mach_error, _machines, newMachine,
                   editId, editForm, mach_reqs>>
    /\ MachFrame

\* updateNew(key, value), as the creation form's inputs call it
DraftValues ==
    [name |-> {"", "Presse"}, code |-> {"", "P-1"},
     status |-> {"setup", "running"}, target_rate_per_hour |-> {0, 120}]

MachUpdateNew ==
    /\ mach_pc = "ready"
    /\ \E key \in DOMAIN DraftValues : \E value \in DraftValues[key] :
          newMachine' = [newMachine EXCEPT ![key] = value]
    /\ UNCHANGED <<mach_pc, mach_loading, mach_error, _machines, _filter,
                   editId, editForm, mach_reqs>>
    /\ MachFrame

\* Fault injection: create() checking the name only
createMutNoCodeCheck ==
    IF ~isLoggedIn
    THEN /\ mach_error' = Str(<<"Connecte-toi pour creer.">>)
         /\ UNCHANGED <<mach_loading, mach_reqs>>
    ELSE IF newMachine.name = ""
    THEN /\ mach_error' = Str(<<"Nom et code sont requis.">>)
         /\ UNCHANGED <<mach_loading, mach_reqs>>
    ELSE /\ mach_loading' = TRUE
         /\ mach_reqs' = MachIssue(mach_reqs, "createMachine", newMachine)
         /\ UNCHANGED mach_error

\* create(), up to the request going out
create ==
    IF ~isLoggedIn
    THEN /\ mach_error' = Str(<<"Connecte-toi pour creer.">>)
         /\ UNCHANGED <<mach_loading, mach_reqs>>
    ELSE IF newMachine.name = "" \/ newMachine.code = ""
    THEN /\ mach_error' = Str(<<"Nom et code sont requis.">>)
         /\ UNCHANGED <<mach_loading, mach_reqs>>
    ELSE /\ mach_loading' = TRUE
         /\ mach_reqs' = MachIssue(mach_reqs, "createMachine", newMachine)
         /\ UNCHANGED mach_error

MachCreate ==
    /\ mach_pc = "ready"
    /\ Len(mach_reqs) < MaxInflight
    /\ create
    /\ UNCHANGED <<mach_pc, _machines, _filter, newMachine, editId, editForm>>
    /\ MachFrame

\* getMachines: next: (data) => { _machines.set(data ?? []); loading.set(false) }
MachGetMachinesNext ==
    \E i \in 1..Len(mach_reqs) :
        /\ mach_reqs[i].kind = "getMachines"
        /\ \E data \in MachineLists : _machines' = data
        /\ mach_loading' = FALSE
        /\ mach_reqs' = RemoveAt(mach_reqs, i)
        /\ UNCHANGED <<mach_pc, mach_error, _filter, newMachine, editId, editForm>>
        /\ MachFrame

\* getMachines: error
MachGetMachinesError ==
    \E i \in 1..Len(mach_reqs) :
        /\ mach_reqs[i].kind = "getMachines"
        /\ mach_error' = Str(<<"Erreur chargement machines">>)
        /\ mach_loading' = FALSE
        /\ mach_reqs' = RemoveAt(mach_reqs, i)
        /\ UNCHANGED <<mach_pc, _machines, _filter, newMachine, editId, editForm>>
        /\ MachFrame

\* Fault injection: a creation's success handler that does not reload the list
MachCreateNextMutNoReload ==
    \E i \in 1..Len(mach_reqs) :
        /\ mach_reqs[i].kind = "createMachine"
        /\ newMachine' = DraftDefault
        /\ mach_loading' = FALSE
        /\ mach_reqs' = RemoveAt(mach_reqs, i)
        /\ UNCHANGED <<mach_pc, mach_error, _machines, _filter, editId, editForm>>
        /\ MachFrame

\* createMachine: next: loading false, draft reset, refresh()
MachCreateNext ==
    \E i \in 1..Len(mach_reqs) :
        /\ mach_reqs[i].kind = "createMachine"
        /\ newMachine' = DraftDefault
        /\ mach_refresh(RemoveAt(mach_reqs, i))
        /\ UNCHANGED <<mach_pc, _machines, _filter, editId, editForm>>
        /\ MachFrame

\* createMachine: error: loading false, error = e?.error?.detail || 'Creation impossible'
MachCreateError ==
    \E i \in 1..Len(mach_reqs) :
        /\ mach_reqs[i].kind = "createMachine"
        /\ \E e \in Errs :
              mach_error' = IF Truthy(e.detail) THEN e.detail
                            ELSE Str(<<"Creation impossible">>)
        /\ mach_loading' = FALSE
        /\ mach_reqs' = RemoveAt(mach_reqs, i)
        /\ UNCHANGED <<mach_pc, _machines, _filter, newMachine, editId, editForm>>
        /\ MachFrame

NextMachines ==
    \/ MachNgOnInit
    \/ MachRefresh
    \/ MachSetFilter
    \/ MachUpdateNew
    \/ MachCreate
    \/ MachGetMachinesNext
    \/ MachGetMachinesError
    \/ MachCreateNext
    \/ MachCreateError

----------------------------------------------------------------------------
\* MachinesComponent: inline edit and delete (pages/machines/machines.ts)

\* Partial<Machine> objects are functions from the keys present to values;
\* {} is the function of empty domain.
EmptyObject == [k \in {} |-> ""]

\* { ...m, [key]: value }
Spread(m, key, value) ==
    [k \in (DOMAIN m) \cup {key} |-> IF k = key THEN value ELSE m[k]]

\* obj.key of a Partial<Machine> is falsy: absent (undefined) or ''
Falsy(obj, key) == key \notin DOMAIN obj \/ obj[key] = ""

\* startEdit(m)
startEdit(m) ==
    /\ editId' = [tag |-> "number", val |-> <<m.id>>]
    /\ editForm' = [name |-> m.name, code |-> m.code, status |-> m.status,
                    target_rate_per_hour |-> m.target_rate_per_hour]

MachStartEdit ==
    /\ mach_pc = "ready"
    /\ \E i \in 1..Len(_machines) : startEdit(_machines[i])
    /\ UNCHANGED <<mach_pc, mach_loading, mach_error, _machines, _filter,
                   newMachine, mach_reqs>>
    /\ MachFrame

\* updateEdit(key, value), as the inputs of the row under edit call it
EditValues == [name |-> {""}, code |-> {"", "T-9"}]

MachUpdateEdit ==
    /\ mach_pc = "ready"
    /\ editId # Null
    /\ \E key \in DOMAIN EditValues : \E value \in EditValues[key] :
          editForm' = Spread(editForm, key, value)
    /\ UNCHANGED <<mach_pc, mach_loading, mach_error, _machines, _filter,
                   newMachine, editId, mach_reqs>>
    /\ MachFrame

\* cancelEdit()
cancelEdit ==
    /\ editId' = Null
    /\ editForm' = EmptyObject

MachCancelEdit ==
    /\ mach_pc = "ready"
    /\ editId # Null
    /\ cancelEdit
    /\ UNCHANGED <<mach_pc, mach_loading, mach_error, _machines, _filter,
                   newMachine, mach_reqs>>
    /\ MachFrame

\* saveEdit(id), up to the request going out
saveEdit(id) ==
    /\ mach_loading' = TRUE
    /\ mach_reqs' = Append(mach_reqs,
          [kind |-> "updateMachine", body |-> [id |-> id, form |-> editForm]])
    /\ UNCHANGED mach_error

\* The save button of the row under edit: saveEdit(m.id)
MachSaveEdit ==
    /\ mach_pc = "ready"
    /\ Len(mach_reqs) < MaxInflight
    /\ editId # Null
    /\ saveEdit(editId.val[1])
    /\ UNCHANGED <<mach_pc, _machines, _filter, newMachine, editId, editForm>>
    /\ MachFrame

\* updateMachine: next: loading false, editId null, refresh()
MachSaveEditNext ==
    \E i \in 1..Len(mach_reqs) :
        /\ mach_reqs[i].kind = "updateMachine"
        /\ editId' = Null
        /\ mach_refresh(RemoveAt(mach_reqs, i))
        /\ UNCHANGED <<mach_pc, _machines, _filter, newMachine, editForm>>
        /\ MachFrame

\* updateMachine: error: loading false, error = e?.error?.detail || 'Mise a jour impossible'
MachSaveEditError ==
    \E i \in 1..Len(mach_reqs) :
        /\ mach_reqs[i].kind = "updateMachine"
        /\ \E e \in Errs :
              mach_error' = IF Truthy(e.detail) THEN e.detail
                            ELSE Str(<<"Mise a jour impossible">>)
        /\ mach_loading' = FALSE
        /\ mach_reqs' = RemoveAt(mach_reqs, i)
        /\ UNCHANGED <<mach_pc, _machines, _filter, newMachine, editId, editForm>>
        /\ MachFrame

\* remove(id): nothing happens unless confirm() answers true
remove(id, confirmed) ==
    IF ~confirmed THEN UNCHANGED <<mach_loading, mach_reqs>>
    ELSE /\ mach_loading' = TRUE
         /\ mach_reqs' = Append(mach_reqs,
               [kind |-> "deleteMachine", body |-> [id |-> id, form |-> EmptyObject]])

MachRemove ==
    /\ mach_pc = "ready"
    /\ Len(mach_reqs) < MaxInflight
    /\ \E i \in 1..Len(_machines), confirmed \in BOOLEAN :
          remove(_machines[i].id, confirmed)
    /\ UNCHANGED <<mach_pc, mach_error, _machines, _filter, newMachine, editId,
                   editForm>>
    /\ MachFrame

\* deleteMachine: next: loading false, refresh()
MachRemoveNext ==
    \E i \in 1..Len(mach_reqs) :
        /\ mach_reqs[i].kind = "deleteMachine"
        /\ mach_refresh(RemoveAt(mach_reqs, i))
        /\ UNCHANGED <<mach_pc, _machines, _filter, newMachine, editId, editForm>>
        /\ MachFrame

\* deleteMachine: error: loading false, error = e?.error?.detail || 'Suppression impossible'
MachRemoveError ==
    \E i \in 1..Len(mach_reqs) :
        /\ mach_reqs[i].kind = "deleteMachine"
        /\ \E e \in Errs :
              mach_error' = IF Truthy(e.detail) THEN e.detail
                            ELSE Str(<<"Suppression impossible">>)
        /\ mach_loading' = FALSE
        /\ mach_reqs' = RemoveAt(mach_reqs, i)
        /\ UNCHANGED <<mach_pc, _machines, _filter, newMachine, editId, editForm>>
        /\ MachFrame

\* The machines screen as its inline edit controls drive it
NextMachEdit ==
    \/ MachNgOnInit
    \/ MachGetMachinesNext
    \/ MachGetMachinesError
    \/ MachStartEdit
    \/ MachUpdateEdit
    \/ MachCancelEdit
    \/ MachSaveEdit
    \/ MachSaveEditNext
    \/ MachSaveEditError

----------------------------------------------------------------------------
\* EventNewComponent (pages/events/new.ts, held in pages/login/login.ts)

InitEvVars ==
    /\ ev_pc = "constructed"
    /\ ev_machines = <<>>
    /\ ev_loading = FALSE
    /\ ev_error = Null
    /\ ev_success = FALSE
    /\ ev_payload = [machine_id |-> Null, event_type |-> "good", qty |-> 1,
                     notes |-> Null]
    /\ ev_reqs = <<>>
    /\ ev_nav = "none"

\* Everything outside the event form
EvFrame == UNCHANGED <<authVars, actVars, machVars, admVars,
                       detVars, navVars, dashVars>>

Num(n) == [tag |-> "number", val |-> <<n>>]

\* ngOnInit: getMachines()
EvNgOnInit ==
    /\ ev_pc = "constructed"
    /\ ev_pc' = "ready"
    /\ ev_reqs' = Append(ev_reqs, [kind |-> "getMachines", body |-> ev_payload])
    /\ UNCHANGED <<ev_machines, ev_loading, ev_error, ev_success, ev_payload, ev_nav>>
    /\ EvFrame

EvMachinesNext ==
    \E i \in 1..Len(ev_reqs) :
        /\ ev_reqs[i].kind = "getMachines"
        /\ \E list \in {<<>>, <<1>>} : ev_machines' = list
        /\ ev_reqs' = RemoveAt(ev_reqs, i)
        /\ UNCHANGED <<ev_pc, ev_loading, ev_error, ev_success, ev_payload, ev_nav>>
        /\ EvFrame

EvMachinesError ==
    \E i \in 1..Len(ev_reqs) :
        /\ ev_reqs[i].kind = "getMachines"
        /\ ev_error' = Str(<<"Impossible de charger les machines">>)
        /\ ev_reqs' = RemoveAt(ev_reqs, i)
        /\ UNCHANGED <<ev_pc, ev_machines, ev_loading, ev_success, ev_payload, ev_nav>>
        /\ EvFrame

EvUserFrame ==
    /\ ev_pc = "ready"
    /\ ev_nav # "activity"
    /\ UNCHANGED <<ev_pc, ev_machines, ev_nav>>
    /\ EvFrame

\* The machine <select> writes payload.machine_id
EvSetMachine ==
    /\ \E v \in {Null, Undefined, Num(0), Num(1)} :
          ev_payload' = [ev_payload EXCEPT !.machine_id = v]
    /\ UNCHANGED <<ev_loading, ev_error, ev_success, ev_reqs>>
    /\ EvUserFrame

\* onTypeChange(), after the type <select> wrote payload.event_type
onTypeChange(p) ==
    IF p.event_type = "stop" THEN [p EXCEPT !.qty = 0]
    ELSE IF p.qty = 0 THEN [p EXCEPT !.qty = 1]
    ELSE p

EvSetType ==
    /\ \E t \in {"good", "scrap", "stop"} :
          ev_payload' = onTypeChange([ev_payload EXCEPT !.event_type = t])
    /\ UNCHANGED <<ev_loading, ev_error, ev_success, ev_reqs>>
    /\ EvUserFrame

EvSetQty ==
    /\ \E q \in {0, 1, 5} : ev_payload' = [ev_payload EXCEPT !.qty = q]
    /\ UNCHANGED <<ev_loading, ev_error, ev_success, ev_reqs>>
    /\ EvUserFrame

\* reset()
EvReset ==
    /\ ev_payload' = [machine_id |-> Null, event_type |-> "good", qty |-> 1,
                      notes |-> Null]
    /\ ev_error' = Null
    /\ ev_success' = FALSE
    /\ UNCHANGED <<ev_loading, ev_reqs>>
    /\ EvUserFrame

\* x ?? null
OrNull(x) == IF x.tag = "string" \/ x.tag = "number" THEN x ELSE Null

\* Fault injection: submit() testing machine_id === null
submitMutStrictNull ==
    IF ev_payload.machine_id.tag = "null"
    THEN /\ ev_error' = Str(<<"Selectionne une machine.">>)
         /\ UNCHANGED <<ev_loading, ev_success, ev_reqs>>
    ELSE /\ ev_loading' = TRUE
         /\ ev_error' = Null
         /\ ev_success' = FALSE
         /\ ev_reqs' = Append(ev_reqs,
               [kind |-> "createEvent",
                body |-> [ev_payload EXCEPT !.notes = OrNull(@)]])

\* submit(), up to the request going out
submit ==
    IF ev_payload.machine_id.tag \in {"null", "undefined"}
    THEN /\ ev_error' = Str(<<"Selectionne une machine.">>)
         /\ UNCHANGED <<ev_loading, ev_success, ev_reqs>>
    ELSE /\ ev_loading' = TRUE
         /\ ev_error' = Null
         /\ ev_success' = FALSE
         /\ ev_reqs' = Append(ev_reqs,
               [kind |-> "createEvent",
                body |-> [ev_payload EXCEPT !.notes = OrNull(@)]])

EvSubmit ==
    /\ Len(ev_reqs) < MaxInflight
    /\ submit
    /\ UNCHANGED ev_payload
    /\ EvUserFrame

\* createEvent: next: loading false, success true, navigation in 600 ms
EvCreateNext ==
    \E i \in 1..Len(ev_reqs) :
        /\ ev_reqs[i].kind = "createEvent"
        /\ ev_loading' = FALSE
        /\ ev_success' = TRUE
        /\ ev_nav' = IF ev_nav = "activity" THEN ev_nav ELSE "scheduled"
        /\ ev_reqs' = RemoveAt(ev_reqs, i)
        /\ UNCHANGED <<ev_pc, ev_machines, ev_error, ev_payload>>
        /\ EvFrame

\* createEvent: error
EvCreateError ==
    \E i \in 1..Len(ev_reqs) :
        /\ ev_reqs[i].kind = "createEvent"
        /\ ev_loading' = FALSE
        /\ ev_error' = Str(<<"Erreur lors de la creation de l'evenement.">>)
        /\ ev_reqs' = RemoveAt(ev_reqs, i)
        /\ UNCHANGED <<ev_pc, ev_machines, ev_success, ev_payload, ev_nav>>
        /\ EvFrame

\* The 600 ms timer fires: router.navigate(['/activity'])
EvNavigate ==
    /\ ev_nav = "scheduled"
    /\ ev_nav' = "activity"
    /\ UNCHANGED <<ev_pc, ev_machines, ev_loading, ev_error, ev_success,
                   ev_payload, ev_reqs>>
    /\ EvFrame

NextEvent ==
    \/ EvNgOnInit
    \/ EvMachinesNext
    \/ EvMachinesError
    \/ EvSetMachine
    \/ EvSetType
    \/ EvSetQty
    \/ EvReset
    \/ EvSubmit
    \/ EvCreateNext
    \/ EvCreateError
    \/ EvNavigate

----------------------------------------------------------------------------
\* AdminComponent (pages/admin/admin.ts)

InitAdmVars ==
    /\ adm_pc = "constructed"
    /\ users = <<>>
    /\ adm_email = ""
    /\ adm_password = ""
    /\ adm_role = "operator"
    /\ adm_error = Null
    /\ adm_reqs = <<>>

\* Everything outside the admin screen
AdmFrame == UNCHANGED <<authVars, actVars, machVars, evVars,
                       detVars, navVars, dashVars>>

Roles == {"admin", "chef", "operator"}

\* reload(): getUsers() with a next handler only
reload(reqs) == Append(reqs, [kind |-> "getUsers", body |-> <<>>])

AdmNgOnInit ==
    /\ adm_pc = "constructed"
    /\ adm_pc' = "ready"
    /\ adm_reqs' = reload(adm_reqs)
    /\ UNCHANGED <<users, adm_email, adm_password, adm_role, adm_error>>
    /\ AdmFrame

\* The form's inputs write email, password, role
AdmEdit ==
    /\ adm_pc = "ready"
    /\ \E e \in {"", "a@b.c"}, pw \in {"", "secret"}, r \in Roles :
          /\ adm_email' = e
          /\ adm_password' = pw
          /\ adm_role' = r
    /\ UNCHANGED <<adm_pc, users, adm_error, adm_reqs>>
    /\ AdmFrame

\* add()
add ==
    adm_reqs' = Append(adm_reqs,
        [kind |-> "createUser",
         body |-> <<adm_email, adm_password, adm_role>>])

AdmAdd ==
    /\ adm_pc = "ready"
    /\ Len(adm_reqs) < MaxInflight
    /\ add
    /\ UNCHANGED <<adm_pc, users, adm_email, adm_password, adm_role, adm_error>>
    /\ AdmFrame

\* getUsers: next: u => users.set(u)
AdmUsersNext ==
    \E i \in 1..Len(adm_reqs) :
        /\ adm_reqs[i].kind = "getUsers"
        /\ \E u \in {<<>>, <<"a@b.c">>} : users' = u
        /\ adm_reqs' = RemoveAt(adm_reqs, i)
        /\ UNCHANGED <<adm_pc, adm_email, adm_password, adm_role, adm_error>>
        /\ AdmFrame

\* getUsers fails: reload() subscribes no error handler
AdmUsersError ==
    \E i \in 1..Len(adm_reqs) :
        /\ adm_reqs[i].kind = "getUsers"
        /\ adm_reqs' = RemoveAt(adm_reqs, i)
        /\ UNCHANGED <<adm_pc, users, adm_email, adm_password, adm_role, adm_error>>
        /\ AdmFrame

\* createUser: next: fields reset, reload()
AdmAddNext ==
    \E i \in 1..Len(adm_reqs) :
        /\ adm_reqs[i].kind = "createUser"
        /\ adm_email' = ""
        /\ adm_password' = ""
        /\ adm_role' = "operator"
        /\ adm_reqs' = reload(RemoveAt(adm_reqs, i))
        /\ UNCHANGED <<adm_pc, users, adm_error>>
        /\ AdmFrame

\* createUser: error
AdmAddError ==
    \E i \in 1..Len(adm_reqs) :
        /\ adm_reqs[i].kind = "createUser"
        /\ adm_error' = Str(<<"Creation impossible">>)
        /\ adm_reqs' = RemoveAt(adm_reqs, i)
        /\ UNCHANGED <<adm_pc, users, adm_email, adm_password, adm_role>>
        /\ AdmFrame

NextAdmin ==
    \/ AdmNgOnInit
    \/ AdmEdit
    \/ AdmAdd
    \/ AdmUsersNext
    \/ AdmUsersError
    \/ AdmAddNext
    \/ AdmAddError

----------------------------------------------------------------------------
\* MachineDetailComponent (pages/machines/detail.ts)

\* The four requests of fetch(id), by the signal their next handler writes
DetRequests == {"machine", "kpiDay", "kpiAll", "events"}

NoRequest == [st |-> "none", id |-> 0, payload |-> <<>>]

InitDetVars ==
    /\ det_pc = "constructed"
    /\ det_loading = FALSE
    /\ det_error = Null
    /\ machine = Null
    /\ events = <<>>
    /\ kpiDay = Null
    /\ kpiAll = Null
    /\ det_reqs = [r \in DetRequests |-> NoRequest]
    /\ det_order = <<>>

\* Everything outside the machine detail screen
DetFrame == UNCHANGED <<authVars, actVars, machVars, evVars, admVars, navVars,
                        dashVars>>

\* Values of the :id route parameter
IdParams == {"1", "2", "0", "abc"}

\* Number(s): NaN for text that is not a number
NumberOf(s) ==
    CASE s = "1" -> [nan |-> FALSE, n |-> 1]
      [] s = "2" -> [nan |-> FALSE, n |-> 2]
      [] s = "0" -> [nan |-> FALSE, n |-> 0]
      [] OTHER   -> [nan |-> TRUE, n |-> 0]

\* fetch(id): loading true, error null, the four requests go out
fetch(id) ==
    /\ det_loading' = TRUE
    /\ det_error' = Null
    /\ det_reqs' = [r \in DetRequests |->
                       [st |-> "pending", id |-> id, payload |-> <<>>]]

\* ngOnInit: if (!id) { error.set('Machine invalide'); return; } fetch(id)
DetNgOnInit ==
    /\ det_pc = "constructed"
    /\ det_pc' = "ready"
    /\ \E param \in IdParams :
          LET id == NumberOf(param) IN
          IF id.nan \/ id.n = 0
          THEN /\ det_error' = Str(<<"Machine invalide">>)
               /\ UNCHANGED <<det_loading, det_reqs>>
          ELSE fetch(id.n)
    /\ UNCHANGED <<machine, events, kpiDay, kpiAll, det_order>>
    /\ DetFrame

\* Bodies the backend may answer with
Kpis == { [good |-> 0, scrap |-> 0, trs |-> 0],
          [good |-> 10, scrap |-> 1, trs |-> 90] }

DetPayloads(r) ==
    CASE r = "machine" -> { Machine(det_reqs[r].id, st) : st \in {"running", "stopped"} }
      [] r = "events"  -> { <<>>, <<[machine_id |-> det_reqs[r].id, minutes |-> 0]>> }
      [] OTHER         -> Kpis

\* A request of fetch(id) responds
DetResponded(r, st, body) ==
    /\ det_reqs[r].st = "pending"
    /\ det_reqs' = [det_reqs EXCEPT ![r].st = st, ![r].payload = body]
    /\ det_order' = Append(det_order, r)

\* Fault injection: the machine is stored only while no error is shown
machineNextMutSkipOnError(m) ==
    machine' = IF det_error = Null THEN m ELSE machine

\* getMachine: next: (m) => machine.set(m)
machineNext(m) == machine' = m

DetMachineNext ==
    /\ \E m \in DetPayloads("machine") :
          /\ DetResponded("machine", "ok", m)
          /\ machineNext(m)
    /\ UNCHANGED <<det_pc, det_loading, det_error, events, kpiDay, kpiAll>>
    /\ DetFrame

\* getMachine: error
DetMachineError ==
    /\ DetResponded("machine", "failed", <<>>)
    /\ det_error' = Str(<<"Impossible de charger la machine">>)
    /\ UNCHANGED <<det_pc, det_loading, machine, events, kpiDay, kpiAll>>
    /\ DetFrame

\* getMachineKpis(id, 24 * 60): next: (k) => kpiDay.set(k)
DetKpiDayNext ==
    /\ \E k \in DetPayloads("kpiDay") :
          /\ DetResponded("kpiDay", "ok", k)
          /\ kpiDay' = k
    /\ UNCHANGED <<det_pc, det_loading, det_error, machine, events, kpiAll>>
    /\ DetFrame

\* getMachineKpis(id, 24 * 60): error
DetKpiDayError ==
    /\ DetResponded("kpiDay", "failed", <<>>)
    /\ det_error' = Str(<<"Impossible de charger le KPI 24h">>)
    /\ UNCHANGED <<det_pc, det_loading, machine, events, kpiDay, kpiAll>>
    /\ DetFrame

\* getMachineKpis(id): next: (k) => kpiAll.set(k)
DetKpiAllNext ==
    /\ \E k \in DetPayloads("kpiAll") :
          /\ DetResponded("kpiAll", "ok", k)
          /\ kpiAll' = k
    /\ UNCHANGED <<det_pc, det_loading, det_error, machine, events, kpiDay>>
    /\ DetFrame

\* getMachineKpis(id): error
DetKpiAllError ==
    /\ DetResponded("kpiAll", "failed", <<>>)
    /\ det_error' = Str(<<"Impossible de charger le KPI global">>)
    /\ UNCHANGED <<det_pc, det_loading, machine, events, kpiDay, kpiAll>>
    /\ DetFrame

\* getMachineActivity(id, undefined, 20): next: events.set(items), loading false
DetActivityNext ==
    /\ \E items \in DetPayloads("events") :
          /\ DetResponded("events", "ok", items)
          /\ events' = items
    /\ det_loading' = FALSE
    /\ UNCHANGED <<det_pc, det_error, machine, kpiDay, kpiAll>>
    /\ DetFrame

\* getMachineActivity(id, undefined, 20): error: error set, loading false
DetActivityError ==
    /\ DetResponded("events", "failed", <<>>)
    /\ det_error' = Str(<<"Impossible de charger l'activite">>)
    /\ det_loading' = FALSE
    /\ UNCHANGED <<det_pc, machine, events, kpiDay, kpiAll>>
    /\ DetFrame

NextDetail ==
    \/ DetNgOnInit
    \/ DetMachineNext
    \/ DetMachineError
    \/ DetKpiDayNext
    \/ DetKpiDayError
    \/ DetKpiAllNext
    \/ DetKpiAllError
    \/ DetActivityNext
    \/ DetActivityError

----------------------------------------------------------------------------
\* Router (app.routes.ts) and LoginComponent (pages/login/login.ts)

\* A URL is the sequence of its path segments: '/' is << >>.
Urls ==
    { <<>>, <<"machines">>, <<"machines", "1">>, <<"activity">>,
      <<"events", "new">>, <<"admin">>, <<"login">>, <<"nowhere">> }

\* The route table, in order. No route declares canActivate.
routes ==
    << [path |-> <<>>, component |-> "DashboardComponent",
        canActivate |-> {}, redirectTo |-> Null],
       [path |-> <<"machines">>, component |-> "MachinesComponent",
        canActivate |-> {}, redirectTo |-> Null],
       [path |-> <<"machines", ":id">>, component |-> "MachineDetailComponent",
        canActivate |-> {}, redirectTo |-> Null],
       [path |-> <<"activity">>, component |-> "ActivityComponent",
        canActivate |-> {}, redirectTo |-> Null],
       [path |-> <<"events", "new">>, component |-> "EventNewComponent",
        canActivate |-> {}, redirectTo |-> Null],
       [path |-> <<"admin">>, component |-> "AdminComponent",
        canActivate |-> {}, redirectTo |-> Null],
       [path |-> <<"login">>, component |-> "LoginComponent",
        canActivate |-> {}, redirectTo |-> Null],
       [path |-> <<"**">>, component |-> "none",
        canActivate |-> {}, redirectTo |-> Str(<<>>)] >>

\* Route matching: '**' matches every URL, ':id' every segment
Matches(path, url) ==
    \/ path = <<"**">>
    \/ /\ Len(path) = Len(url)
       /\ \A i \in 1..Len(path) : path[i] = ":id" \/ path[i] = url[i]

\* The first route of the table that matches
Recognize(url) ==
    routes[CHOOSE i \in 1..Len(routes) :
              /\ Matches(routes[i].path, url)
              /\ \A j \in 1..(i - 1) : ~Matches(routes[j].path, url)]

\* The route a URL ends on, its redirect followed
Resolve(url) ==
    LET r == Recognize(url) IN
    IF r.redirectTo # Null THEN Recognize(r.redirectTo.val) ELSE r

\* A navigation: the route's component is activated when each of its guards
\* lets it through; a route with no guard always activates
navigate(url) ==
    LET r == Resolve(url) IN
    activated' = IF r.canActivate = {} THEN r.component ELSE activated

InitNavVars ==
    /\ activated = "none"
    /\ nav_calls = <<>>
    /\ login_error = Null
    /\ login_loading = FALSE
    /\ login_reqs = <<>>
    /\ login_last = [h |-> "none", access_token |-> Null]

\* Everything outside the router, the login screen and the auth service
NavFrame == UNCHANGED <<sent, actVars, machVars, evVars, admVars, detVars,
                        dashVars>>

\* The user opens a URL (address bar, routerLink)
NavOpen ==
    /\ \E url \in Urls : navigate(url)
    /\ UNCHANGED <<nav_calls, login_error, login_loading, login_reqs, login_last>>
    /\ UNCHANGED <<localStorage, _token, authLast>>
    /\ NavFrame

\* A navigateByUrl call of LoginComponent resolves
NavResolve ==
    /\ nav_calls # <<>>
    /\ navigate(Head(nav_calls).url)
    /\ nav_calls' = Tail(nav_calls)
    /\ UNCHANGED <<login_error, login_loading, login_reqs, login_last>>
    /\ UNCHANGED <<localStorage, _token, authLast>>
    /\ NavFrame

Credentials == { [username |-> "a@b.c", password |-> "secret"],
                 [username |-> "", password |-> ""] }

\* submit(): error null, loading true, POST /auth/login
LoginSubmit ==
    /\ activated = "LoginComponent"
    /\ Len(login_reqs) + Len(nav_calls) < MaxInflight
    /\ login_error' = Null
    /\ login_loading' = TRUE
    /\ \E body \in Credentials : login_reqs' = Append(login_reqs, body)
    /\ UNCHANGED <<activated, nav_calls, login_last>>
    /\ UNCHANGED <<localStorage, _token, authLast>>
    /\ NavFrame

\* Fault injection: the navigation requested before the token is stored
loginNextMutNavigateFirst(access_token) ==
    /\ nav_calls' = Append(nav_calls, [url |-> <<>>, token |-> _token])
    /\ login(access_token)
    /\ login_loading' = FALSE

\* next: (resp) => { auth.login(resp.access_token); router.navigateByUrl('/');
\*                   loading = false; }
\* The navigation call records the token the auth service holds when it is made.
loginNext(access_token) ==
    /\ login(access_token)
    /\ nav_calls' = Append(nav_calls, [url |-> <<>>, token |-> access_token])
    /\ login_loading' = FALSE

LoginRespNext ==
    /\ login_reqs # <<>>
    /\ \E access_token \in LoginInputs :
          /\ loginNext(access_token)
          /\ login_last' = [h |-> "next", access_token |-> access_token]
    /\ login_reqs' = Tail(login_reqs)
    /\ UNCHANGED <<activated, login_error>>
    /\ NavFrame

\* error: () => { error = 'Identifiants invalides'; loading = false; }
LoginRespError ==
    /\ login_reqs # <<>>
    /\ login_error' = Str(<<"Identifiants invalides">>)
    /\ login_loading' = FALSE
    /\ login_reqs' = Tail(login_reqs)
    /\ login_last' = [h |-> "error", access_token |-> Null]
    /\ UNCHANGED <<activated, nav_calls>>
    /\ UNCHANGED <<localStorage, _token, authLast>>
    /\ NavFrame

\* logout(), from the header of any page
NavLogout ==
    /\ logout
    /\ UNCHANGED navVars
    /\ NavFrame

NextLogin ==
    \/ NavOpen
    \/ NavResolve
    \/ LoginSubmit
    \/ LoginRespNext
    \/ LoginRespError
    \/ NavLogout

----------------------------------------------------------------------------
\* DashboardComponent (pages/dashboard/dashboard.ts) and the ?status= query
\* parameter of the machines screen

\* pieData.labels
pieLabels == <<"Running", "Stopped", "Setup">>

\* statusMap[label]: undefined for a label that is no key
statusMap(label) ==
    CASE label = "Running" -> Str(<<"running">>)
      [] label = "Stopped" -> Str(<<"stopped">>)
      [] label = "Setup"   -> Str(<<"setup">>)
      [] OTHER             -> Undefined

\* Bodies GET /dashboard/summary may answer with
Summaries ==
    { [kpis |-> [total_machines |-> 3, running |-> 1, stopped |-> 1]],
      [kpis |-> [total_machines |-> 1, running |-> 1, stopped |-> 1]],
      [kpis |-> [running |-> 2]] }

\* summary()?.kpis?.field ?? 0
KpiOr0(sum, field) ==
    IF sum = Null THEN 0
    ELSE IF field \in DOMAIN sum.kpis THEN sum.kpis[field] ELSE 0

\* get setup(): Math.max(0, total - running - stopped)
setupOf(sum) ==
    MathMax(0, KpiOr0(sum, "total_machines") - KpiOr0(sum, "running")
               - KpiOr0(sum, "stopped"))

InitDashVars ==
    /\ dash_pc = "constructed"
    /\ dash_loading = FALSE
    /\ dash_error = Null
    /\ summary = Null
    /\ pieData = <<0, 0, 0>>
    /\ dash_inflight = 0
    /\ dash_nav = <<>>
    /\ dash_click = [clicked |-> FALSE, activeEls |-> <<>>]
    /\ queryStatus = Null

\* Everything outside the dashboard, the router and the machines screen
DashFrame ==
    UNCHANGED <<authVars, actVars, evVars, admVars, detVars,
                nav_calls, login_error, login_loading, login_reqs, login_last>>

\* refresh(): loading true, error null, GET /dashboard/summary
dash_refresh ==
    /\ dash_loading' = TRUE
    /\ dash_error' = Null
    /\ dash_inflight' = dash_inflight + 1

\* The route '' is activated: ngOnInit sets pieOptions and calls refresh()
DashNgOnInit ==
    /\ dash_pc = "constructed"
    /\ dash_pc' = "ready"
    /\ navigate(<<>>)
    /\ dash_refresh
    /\ UNCHANGED <<summary, pieData, dash_nav, dash_click, queryStatus>>
    /\ UNCHANGED machVars
    /\ DashFrame

DashRefresh ==
    /\ dash_pc = "ready"
    /\ dash_inflight < MaxInflight
    /\ dash_refresh
    /\ UNCHANGED <<dash_pc, summary, pieData, dash_nav, dash_click, queryStatus>>
    /\ UNCHANGED <<activated, machVars>>
    /\ DashFrame

\* getDashboardSummary: next: summary stored, pieData rebuilt, loading false
DashSummaryNext ==
    /\ dash_inflight > 0
    /\ \E data \in Summaries :
          /\ summary' = data
          /\ pieData' = <<KpiOr0(data, "running"), KpiOr0(data, "stopped"),
                          setupOf(data)>>
    /\ dash_loading' = FALSE
    /\ dash_inflight' = dash_inflight - 1
    /\ UNCHANGED <<dash_pc, dash_error, dash_nav, dash_click, queryStatus>>
    /\ UNCHANGED <<activated, machVars>>
    /\ DashFrame

\* getDashboardSummary: error
DashSummaryError ==
    /\ dash_inflight > 0
    /\ dash_error' = Str(<<"Erreur lors du chargement du dashboard">>)
    /\ dash_loading' = FALSE
    /\ dash_inflight' = dash_inflight - 1
    /\ UNCHANGED <<dash_pc, summary, pieData, dash_nav, dash_click, queryStatus>>
    /\ UNCHANGED <<activated, machVars>>
    /\ DashFrame

\* activeEls Chart.js hands to onClick: the indexes of the segments hit
ActiveEls == {<<>>, <<0>>, <<1>>, <<2>>, <<2, 0>>}

\* Fault injection: the label looked up at the index as it is, in a list
\* whose first index is 1
onClickMutOffByOne(activeEls) ==
    IF Len(activeEls) = 0 THEN UNCHANGED dash_nav
    ELSE LET index  == activeEls[1]
             label  == IF index \in 1..Len(pieLabels)
                       THEN Str(<<pieLabels[index]>>) ELSE Undefined
             status == IF Truthy(label) THEN statusMap(label.val[1]) ELSE Undefined
         IN IF Truthy(status)
            THEN dash_nav' = Append(dash_nav,
                     [path |-> <<"machines">>, status |-> status])
            ELSE UNCHANGED dash_nav

\* pieOptions.onClick(_event, activeEls, chart)
onClick(activeEls) ==
    IF Len(activeEls) = 0 THEN UNCHANGED dash_nav
    ELSE LET index  == activeEls[1]
             label  == IF index + 1 \in 1..Len(pieLabels)
                       THEN Str(<<pieLabels[index + 1]>>) ELSE Undefined
             status == IF Truthy(label) THEN statusMap(label.val[1]) ELSE Undefined
         IN IF Truthy(status)
            THEN dash_nav' = Append(dash_nav,
                     [path |-> <<"machines">>, status |-> status])
            ELSE UNCHANGED dash_nav

DashClick ==
    /\ dash_pc = "ready"
    /\ Len(dash_nav) < MaxInflight
    /\ \E activeEls \in ActiveEls :
          /\ onClick(activeEls)
          /\ dash_click' = [clicked |-> TRUE, activeEls |-> activeEls]
    /\ UNCHANGED <<dash_pc, dash_loading, dash_error, summary, pieData,
                   dash_inflight, queryStatus>>
    /\ UNCHANGED <<activated, machVars>>
    /\ DashFrame

\* raw.toLowerCase() for the values the parameter takes
toLowerCase(raw) ==
    CASE raw = "Running" -> "running"
      [] raw = "Stopped" -> "stopped"
      [] raw = "Setup"   -> "setup"
      [] OTHER           -> raw

\* queryParamMap subscription of MachinesComponent.ngOnInit:
\* raw = (params.get('status') ?? 'all').toLowerCase(); allowed ? raw : 'all'
filterOfParams(status) ==
    LET raw == toLowerCase(IF status.tag = "string" THEN status.val[1] ELSE "all")
    IN IF raw \in {"all", "running", "stopped", "setup"} THEN raw ELSE "all"

\* A router.navigate(['/machines'], { queryParams: { status } }) resolves:
\* the route is activated; a MachinesComponent created by it runs ngOnInit
\* (the subscription fires with the parameters, then refresh()); one already
\* there gets the new parameters through its subscription
DashNavResolve ==
    /\ dash_nav # <<>>
    /\ navigate(Head(dash_nav).path)
    /\ queryStatus' = Head(dash_nav).status
    /\ dash_nav' = Tail(dash_nav)
    /\ dash_pc' = "destroyed"
    /\ _filter' = filterOfParams(Head(dash_nav).status)
    /\ IF mach_pc = "constructed"
       THEN /\ mach_pc' = "ready"
            /\ mach_refresh(mach_reqs)
       ELSE UNCHANGED <<mach_pc, mach_loading, mach_error, mach_reqs>>
    /\ UNCHANGED <<_machines, newMachine, editId, editForm>>
    /\ UNCHANGED <<dash_loading, dash_error, summary, pieData, dash_inflight,
                   dash_click>>
    /\ DashFrame

\* setFilter(f) of the machines screen that keeps the URL in step:
\* _filter.set(f); router.navigate([], { queryParams: { status: f or null } })
MachSetFilterUrl ==
    /\ mach_pc = "ready"
    /\ activated = "MachinesComponent"
    /\ dash_nav = <<>>
    /\ \E f \in Filters :
          /\ _filter' = f
          /\ queryStatus' = IF f = "all" THEN Null ELSE Str(<<f>>)
    /\ UNCHANGED <<mach_pc, mach_loading, mach_error, _machines, newMachine,
                   editId, editForm, mach_reqs>>
    /\ UNCHANGED <<dash_pc, dash_loading, dash_error, summary, pieData,
                   dash_inflight, dash_nav, dash_click, activated>>
    /\ DashFrame

NextDashboard ==
    \/ DashNgOnInit
    \/ DashRefresh
    \/ DashSummaryNext
    \/ DashSummaryError
    \/ DashClick
    \/ DashNavResolve
    \/ MachSetFilterUrl
    \/ MachGetMachinesNext
    \/ MachGetMachinesError

----------------------------------------------------------------------------
\* Specifications, one per screen / service

\* The auth service alone, started with any value a previous session stored
InitAuth ==
    /\ InitAuthVars
    /\ InitActVars /\ InitMachVars /\ InitEvVars /\ InitAdmVars
    /\ InitDetVars /\ InitNavVars /\ InitDashVars

SpecAuth == InitAuth /\ [][NextAuth]_vars

\* The activity screen
InitActivity ==
    /\ InitAuthVars /\ localStorage = Null
    /\ InitActVars /\ InitMachVars /\ InitEvVars /\ InitAdmVars
    /\ InitDetVars /\ InitNavVars /\ InitDashVars

SpecActivity == InitActivity /\ [][NextActivity]_vars

\* The machines screen, with or without a user logged in
InitMachines ==
    /\ InitAuthVars /\ localStorage \in {Null, Str(<<"hdr", "jadmin", "sig">>)}
    /\ InitActVars /\ InitMachVars /\ InitEvVars /\ InitAdmVars
    /\ InitDetVars /\ InitNavVars /\ InitDashVars

SpecMachines == InitMachines /\ [][NextMachines]_vars

\* The event form
InitEvent ==
    /\ InitAuthVars /\ localStorage = Null
    /\ InitActVars /\ InitMachVars /\ InitEvVars /\ InitAdmVars
    /\ InitDetVars /\ InitNavVars /\ InitDashVars

SpecEvent == InitEvent /\ [][NextEvent]_vars

\* The admin screen
InitAdmin ==
    /\ InitAuthVars /\ localStorage = Null
    /\ InitActVars /\ InitMachVars /\ InitEvVars /\ InitAdmVars
    /\ InitDetVars /\ InitNavVars /\ InitDashVars

SpecAdmin == InitAdmin /\ [][NextAdmin]_vars

\* The machines screen under its inline edit controls
InitMachEdit ==
    /\ InitAuthVars /\ localStorage = Str(<<"hdr", "jadmin", "sig">>)
    /\ InitActVars /\ InitMachVars /\ InitEvVars /\ InitAdmVars
    /\ InitDetVars /\ InitNavVars /\ InitDashVars

SpecMachEdit == InitMachEdit /\ [][NextMachEdit]_vars

\* The machine detail screen
InitDetail ==
    /\ InitAuthVars /\ localStorage = Null
    /\ InitActVars /\ InitMachVars /\ InitEvVars /\ InitAdmVars
    /\ InitDetVars /\ InitNavVars /\ InitDashVars

SpecDetail == InitDetail /\ [][NextDetail]_vars

\* The router and the login screen, started with any value a previous
\* session stored
InitLogin ==
    /\ InitAuthVars
    /\ InitActVars /\ InitMachVars /\ InitEvVars /\ InitAdmVars
    /\ InitDetVars /\ InitNavVars /\ InitDashVars

SpecLogin == InitLogin /\ [][NextLogin]_vars

\* The dashboard, its donut and the machines screen it leads to
InitDashboard ==
    /\ InitAuthVars /\ localStorage = Null
    /\ InitActVars /\ InitMachVars /\ InitEvVars /\ InitAdmVars
    /\ InitDetVars /\ InitNavVars /\ InitDashVars

SpecDashboard == InitDashboard /\ [][NextDashboard]_vars

\* The activity screen when every request in flight eventually responds
ActResp(c) == ActRespNextOf(c) \/ ActRespErrorOf(c)

SpecActivityFair ==
    InitActivity /\ [][NextActivity]_vars
    /\ \A c \in 1..MaxRefresh : WF_vars(ActResp(c))

----------------------------------------------------------------------------
\* Properties of the activity cascade

StdWindows == {43200, 10080, 1440}

\* The windows a refresh() call has requested, in request order
Requested(call) ==
    LET reqs == SelectSeq(call.trace, LAMBDA e : e[1] = "req")
    IN [i \in 1..Len(reqs) |-> reqs[i][2]]

Succeeded(call) == \E k \in 1..Len(call.trace) : call.trace[k][1] = "ok"

NumFailures(call) ==
    Len(SelectSeq(call.trace, LAMBDA e : e[1] = "fail"))

\* C1: every refresh() call requests the selected window first, then the
\* standard windows 43200, 10080, 1440 that are strictly smaller than it, in
\* strictly decreasing order without skipping one, never a window twice, and
\* each later window only right after the failure of the previous one.
C1_CascadeOrder ==
    \A c \in 1..Len(act_calls) :
        LET call == act_calls[c]
            w    == Requested(call)
            sel  == minutesOf(call.period)
        IN /\ Len(w) >= 1
           /\ w[1] = sel
           /\ \A i \in 2..Len(w) : w[i] \in StdWindows /\ w[i] < sel
           /\ \A i, j \in 1..Len(w) : i < j => w[i] > w[j]
           /\ \A i \in 1..(Len(w) - 1) :
                 ~ \E x \in StdWindows : w[i + 1] < x /\ x < w[i]
           /\ \A k \in 2..Len(call.trace) :
                 call.trace[k][1] = "req" =>
                    /\ k >= 3
                    /\ call.trace[k - 1][1] = "fail"
                    /\ call.trace[k - 2][1] = "req"
                    /\ call.trace[k - 1][2] = call.trace[k - 2][2]
           /\ call.st = "failed" =>
                 {w[i] : i \in 1..Len(w)} = {sel} \cup {x \in StdWindows : x < sel}

\* C1 witness: a one-year refresh went through all four windows
C1_Witness ==
    \E c \in 1..Len(act_calls) :
        /\ act_calls[c].period = "1y"
        /\ act_calls[c].st = "failed"
        /\ Requested(act_calls[c]) = <<525600, 43200, 10080, 1440>>

\* C2: once a request of a refresh() call has succeeded the call issues no
\* further request; the success handler stores the response in items and
\* sets loading to false.
C2_Step ==
    \A c \in 1..Len(act_calls) :
        /\ Succeeded(act_calls[c]) => act_calls'[c] = act_calls[c]
        /\ (~Succeeded(act_calls[c]) /\ Succeeded(act_calls'[c])) =>
              /\ act_last'.h = "next" /\ act_last'.call = c
              /\ act_items' = act_last'.data
              /\ act_loading' = FALSE
              /\ act_calls'[c].trace[Len(act_calls'[c].trace)][1] = "ok"
              /\ act_calls'[c].st # "pending"

C2_StopsAtFirstSuccess == [][C2_Step]_vars

\* C2 witness: a call with fallbacks left has succeeded and its response is
\* what items holds
C2_Witness ==
    \E c \in 1..Len(act_calls) :
        /\ Succeeded(act_calls[c])
        /\ act_calls[c].idx < Len(act_calls[c].fallbacks)
        /\ act_calls[c].idx > 1
        /\ act_last.h = "next" /\ act_last.call = c
        /\ act_items = act_last.data /\ act_items # <<>>
        /\ ~act_loading

\* C3: a refresh() call sets error/errorDetail only when the request for its
\* last candidate window has failed; after a failure with a smaller candidate
\* remaining, error and errorDetail are null and loading is true.
C3_Step ==
    \A c \in 1..Len(act_calls) :
        LET call == act_calls[c]
            failedNow == NumFailures(act_calls'[c]) > NumFailures(call)
        IN /\ (failedNow /\ act_error' # act_error) =>
                 call.idx = Len(call.fallbacks)
           /\ (failedNow /\ act_errorDetail' # act_errorDetail) =>
                 call.idx = Len(call.fallbacks)
           /\ (failedNow /\ call.idx < Len(call.fallbacks)) =>
                 /\ act_error' = Null
                 /\ act_errorDetail' = Null
                 /\ act_loading' = TRUE

C3_ErrorOnlyWhenExhausted == [][C3_Step]_vars

----------------------------------------------------------------------------
\* Properties of the auth state

\* A token is malformed when it has no payload segment, or its payload is not
\* base64url, or does not decode to JSON
Malformed(t) ==
    /\ t.tag = "string"
    /\ \/ Len(t.val) < 2
       \/ t.val[2] \in {"", "bad64", "notjson"}

\* C4: with a malformed token stored, decoding does not throw, payload() and
\* role() are null and isLoggedIn() is false.
C4_MalformedTokenNoAuth ==
    Malformed(_token) =>
        /\ payload = Ret(PNull)
        /\ decodeJwtSimple(_token) = Ret(PNull)
        /\ role = Ret(Null)
        /\ ~isLoggedIn

\* AuthService holds a token: token() is a non-empty string
HoldsToken(v) == v.tag = "string" /\ v.val # <<"">>

HasAuthorization(req) == \E h \in req.headers : h[1] = "Authorization"

\* C5: every request sent carries Authorization: Bearer <t> exactly when a
\* token t was held when it was sent; otherwise it is forwarded unmodified,
\* without an Authorization header.
C5_BearerIffToken ==
    \A i \in 1..Len(sent) :
        LET r == sent[i] IN
        IF HoldsToken(r.tokenAtSend)
        THEN /\ r.final.headers =
                  r.orig.headers \cup
                  {<<"Authorization", <<"Bearer">> \o r.tokenAtSend.val>>}
             /\ r.final.method = r.orig.method /\ r.final.url = r.orig.url
        ELSE /\ r.final = r.orig
             /\ ~HasAuthorization(r.final)

\* C5 witness: a request sent with a token held, then one sent after logout
C5_Witness ==
    /\ Len(sent) = 2
    /\ HoldsToken(sent[1].tokenAtSend) /\ HasAuthorization(sent[1].final)
    /\ sent[2].tokenAtSend = Null /\ ~HasAuthorization(sent[2].final)
    /\ authLast.op = "logout"

\* C6: after login(t), t a string, and a reload, token() = t; after logout()
\* and a reload, token() = null.
C6_TokenSurvivesReload ==
    authLast.reloaded =>
        /\ (authLast.op = "login" /\ authLast.arg.tag = "string") =>
              token = authLast.arg
        /\ authLast.op = "logout" => token = Null

\* C6 witness: a token other than the one found at start-up was logged in and
\* the page reloaded
C6_Witness ==
    /\ authLast.op = "login" /\ authLast.reloaded
    /\ authLast.arg = Str(<<"hdr", "jadmin", "sig">>)
    /\ token = authLast.arg /\ localStorage = authLast.arg

----------------------------------------------------------------------------
\* Properties of the machines screen

\* Positions of the machines of the list whose status is f
MatchIdx(f) == {i \in 1..Len(_machines) : _machines[i].status = f}

\* The k-th of them, in list order
KthMatch(f, k) ==
    CHOOSE i \in MatchIdx(f) : Cardinality({j \in MatchIdx(f) : j <= i}) = k

\* C7: with filter 'all' filtered() is the list itself; with a status filter f
\* it holds exactly the machines whose status is f, in their original order.
C7_FilteredMatches ==
    /\ _filter = "all" => filtered = _machines
    /\ _filter \in Statuses =>
          /\ Len(filtered) = Cardinality(MatchIdx(_filter))
          /\ \A k \in 1..Len(filtered) :
                filtered[k] = _machines[KthMatch(_filter, k)]

\* C7 witness: a status filter that drops the first machine of the list
C7_Witness ==
    /\ _filter = "running"
    /\ Len(_machines) = 2
    /\ _machines[1].status = "stopped"
    /\ _machines[2].status = "running"
    /\ filtered = <<_machines[2]>>

\* C8: create() with an empty name or an empty code, or with no user logged
\* in, issues no request, sets an error message and leaves the draft, the
\* machine list and loading unchanged.
C8_Step ==
    (MachCreate /\ (~isLoggedIn \/ newMachine.name = "" \/ newMachine.code = ""))
    => /\ mach_reqs' = mach_reqs
       /\ mach_error' # Null
       /\ newMachine' = newMachine
       /\ _machines' = _machines
       /\ mach_loading' = mach_loading

C8_CreateBlocked == [][C8_Step]_vars

\* C8 witness: a logged-in user's create() was refused for the empty code
C8_Witness ==
    /\ isLoggedIn
    /\ newMachine.name # "" /\ newMachine.code = ""
    /\ mach_error = Str(<<"Nom et code sont requis.">>)
    /\ mach_reqs = <<>>
    /\ ~mach_loading

----------------------------------------------------------------------------
\* Properties of the event form

\* C9: submit() with machine_id null or undefined issues no request, sets
\* error to the 'select a machine' message and leaves loading and success
\* unchanged; every POST /events in flight carries a machine_id.
C9_Step ==
    /\ (EvSubmit /\ ev_payload.machine_id.tag \in {"null", "undefined"})
       => /\ ev_reqs' = ev_reqs
          /\ ev_error' = Str(<<"Selectionne une machine.">>)
          /\ ev_loading' = ev_loading
          /\ ev_success' = ev_success
    /\ \A i \in 1..Len(ev_reqs') :
          ev_reqs'[i].kind = "createEvent" =>
             ev_reqs'[i].body.machine_id.tag = "number"

C9_SubmitBlocked == [][C9_Step]_vars

\* C9 witness: submit() was refused with machine_id undefined
C9_Witness ==
    /\ ev_payload.machine_id = Undefined
    /\ ev_error = Str(<<"Selectionne une machine.">>)
    /\ ev_reqs = <<>>
    /\ ~ev_loading /\ ~ev_success

----------------------------------------------------------------------------
\* Properties of the admin screen

\* C10: add() with an empty email or an empty password issues no
\* POST /admin/users.
C10_Step ==
    (AdmAdd /\ (adm_email = "" \/ adm_password = "")) => adm_reqs' = adm_reqs

C10_AddBlocked == [][C10_Step]_vars

----------------------------------------------------------------------------
\* Properties of the machines screen's inline edit

\* C11: saveEdit(id) with an edit form whose name or code is empty issues no
\* PATCH /machines/:id: the requests in flight are left as they were.
C11_Step ==
    (MachSaveEdit /\ (Falsy(editForm, "name") \/ Falsy(editForm, "code")))
        => mach_reqs' = mach_reqs

C11_SaveEditBlocked == [][C11_Step]_vars

----------------------------------------------------------------------------
\* Properties of request handling across screens

\* C12: immediately after a success handler of the activity screen has run
\* (the machine list or a cascade request answered), the screen's error is
\* null, whatever failed before it.
C12_SuccessClearsError ==
    act_last.h \in {"next", "machines-next"} => act_error = Null

\* Requests of the activity screen in flight, and the signals their response
\* handlers write
ActInFlight ==
    (IF act_loadMachines = "pending" THEN {0} ELSE {})
    \cup {c \in 1..Len(act_calls) : act_calls[c].st = "pending"}

ActWrites(r) ==
    IF r = 0 THEN {"machines", "error", "errorDetail"}
    ELSE {"items", "loading", "error", "errorDetail"}

\* C13: the activity screen never has two requests in flight whose response
\* handlers write the same state variable.
C13_NonOverlapping ==
    \A r1 \in ActInFlight : \A r2 \in ActInFlight :
        r1 # r2 => ActWrites(r1) \cap ActWrites(r2) = {}

----------------------------------------------------------------------------
\* Properties of the machine detail screen

\* The signal a request's next handler writes, and its initial value
Signal(r) ==
    CASE r = "machine" -> machine
      [] r = "kpiDay"  -> kpiDay
      [] r = "kpiAll"  -> kpiAll
      [] OTHER         -> events

InitialSignal(r) == IF r = "events" THEN <<>> ELSE Null

\* C14: whatever subset of the four requests of fetch(id) fails and in
\* whatever order they respond, each request that succeeded has its payload
\* in its own signal, and a request that has not succeeded left its signal
\* untouched.
C14_PayloadsIndependent ==
    \A r \in DetRequests :
        IF det_reqs[r].st = "ok" THEN Signal(r) = det_reqs[r].payload
        ELSE Signal(r) = InitialSignal(r)

\* The machine request succeeded after another request had failed, events
\* succeeded too, and both payloads are in place.
C14_Witness ==
    /\ Len(det_order) = 4
    /\ det_order[4] = "machine"
    /\ det_reqs["machine"].st = "ok"
    /\ det_reqs["events"].st = "ok"
    /\ det_reqs["kpiDay"].st = "failed"
    /\ det_reqs["kpiAll"].st = "failed"
    /\ machine = det_reqs["machine"].payload
    /\ machine.status = "stopped"
    /\ events = det_reqs["events"].payload
    /\ events # <<>>

\* The message of each request's error handler
DetMessage(r) ==
    CASE r = "machine" -> Str(<<"Impossible de charger la machine">>)
      [] r = "kpiDay"  -> Str(<<"Impossible de charger le KPI 24h">>)
      [] r = "kpiAll"  -> Str(<<"Impossible de charger le KPI global">>)
      [] OTHER         -> Str(<<"Impossible de charger l'activite">>)

\* C15: the message of every failed request of fetch(id) is reported: for
\* each request that failed, the screen's error shows that request's message.
C15_EveryFailureReported ==
    \A r \in DetRequests : det_reqs[r].st = "failed" => det_error = DetMessage(r)

----------------------------------------------------------------------------
\* Termination of the activity cascade

\* Number of requests a refresh() call has issued
NumRequests(c) ==
    Cardinality({i \in 1..Len(act_calls[c].trace) : act_calls[c].trace[i][1] = "req"})

\* The handler that just ran ended call c: loading is false, and either the
\* items of the answer are stored or the error is set
Settled(c) ==
    /\ act_last.call = c
    /\ act_last.h \in {"next", "error"}
    /\ ~act_last.retried
    /\ act_calls[c].st # "pending"
    /\ ~act_loading
    /\ IF act_last.h = "next" THEN act_items = act_last.data
       ELSE act_error # Null

\* C16: when every request in flight eventually responds, each refresh() call
\* issues at most four requests and leads to a state where its cascade has
\* ended with loading false and the items stored or the error set.
C16_CascadeFinite ==
    /\ [](\A c \in 1..Len(act_calls) : NumRequests(c) <= 4)
    /\ \A c \in 1..MaxRefresh :
          (c <= Len(act_calls) /\ act_calls[c].st = "pending") ~> Settled(c)

\* A call for the one-year period went through its four windows and ended on
\* the failure of the last one.
C16_Witness ==
    \E c \in 1..Len(act_calls) :
        /\ NumRequests(c) = 4
        /\ act_calls[c].st = "failed"
        /\ Settled(c)

----------------------------------------------------------------------------
\* Properties of the router, the auth service and the login screen

\* C17: the administration screen is activated only for a logged-in user
\* whose role is admin.
C17_AdminProtected ==
    activated = "AdminComponent" =>
        (isLoggedIn /\ role = Ret(Str(<<"admin">>)))

\* The auth state is the disconnected one
Disconnected ==
    /\ token = Null
    /\ ~isLoggedIn
    /\ role = Ret(Null)
    /\ userId = Null
    /\ localStorage = Null

\* C18: from logout() until the next login(), across page reloads, the auth
\* state is the disconnected one and no request sent gets an Authorization
\* header.
C18_Step ==
    /\ authLast'.op = "logout" => Disconnected'
    /\ (authLast.op = "logout" /\ Len(sent') > Len(sent))
          => ~HasAuthorization(sent'[Len(sent')].final)

C18_LogoutDisconnects == [][C18_Step]_vars

\* A request went out with the token of a login, then logout() ran and the
\* next request went out bare.
C18_Witness ==
    /\ authLast.op = "logout"
    /\ Len(sent) = 2
    /\ HasAuthorization(sent[1].final)
    /\ ~HasAuthorization(sent[2].final)
    /\ Disconnected

\* C19: unless the last operation was a login() with a value that is not a
\* string, token() equals the value stored under 'token' (null when absent).
C19_TokenMatchesStorage ==
    ~(authLast.op = "login" /\ authLast.arg.tag # "string")
        => token = localStorage

\* login(t) with a well-formed token ran over the state a reload restored
C19_Witness ==
    /\ authLast.op = "login"
    /\ authLast.arg = Str(<<"hdr", "joper", "sig">>)
    /\ token = authLast.arg
    /\ localStorage = authLast.arg
    /\ Len(sent) > 0
    /\ sent[1].tokenAtSend = Str(<<"hdr", "jadmin", "sig">>)

\* C20: the error handler of POST /auth/login leaves the token (signal and
\* storage) and the navigation as they were, sets error and puts loading to
\* false; the next handler stores the token and then requests the navigation
\* to '/', which sees the stored token.
C20_Step ==
    /\ LoginRespError =>
          /\ UNCHANGED <<_token, localStorage, nav_calls, activated>>
          /\ login_error' = Str(<<"Identifiants invalides">>)
          /\ login_loading' = FALSE
    /\ LoginRespNext =>
          /\ _token' = login_last'.access_token
          /\ localStorage' = ToDOMString(login_last'.access_token)
          /\ Len(nav_calls') = Len(nav_calls) + 1
          /\ nav_calls'[Len(nav_calls')] = [url |-> <<>>, token |-> _token']
          /\ login_loading' = FALSE

C20_FailedLoginNoEffect == [][C20_Step]_vars

\* A login failed while a token was held: the token is still there, the
\* login screen still shown, the error set and loading false.
C20_Witness ==
    /\ login_last.h = "error"
    /\ _token = Str(<<"hdr", "joper", "sig">>)
    /\ localStorage = _token
    /\ activated = "LoginComponent"
    /\ nav_calls = <<>>
    /\ login_error = Str(<<"Identifiants invalides">>)
    /\ ~login_loading

----------------------------------------------------------------------------
\* Properties of overlapping requests

\* The machine and the candidate windows of the current selection
CurrentMid == IF selectedMachineId < 0 THEN 0 ELSE selectedMachineId

CurrentWindows ==
    LET f == Fallbacks(MathMax(1, minutesOf(selectedPeriod)))
    IN {f[k] : k \in 1..Len(f)}

\* C21: once every request in flight on the activity screen has been
\* handled and the latest refresh() has been answered with data, each item
\* shown was answered for the machine currently selected and for one of the
\* windows of the period currently selected.
C21_ItemsMatchSelection ==
    (/\ act_pc = "ready"
     /\ ActInFlight = {}
     /\ act_calls[Len(act_calls)].st = "ok") =>
        \A i \in 1..Len(act_items) :
            /\ act_items[i].machine_id = CurrentMid
            /\ act_items[i].minutes \in CurrentWindows

\* C22: on the machine detail screen loading false implies that none of the
\* four requests of fetch(id) is still pending.
C22_LoadingWhilePending ==
    (det_pc = "ready" /\ ~det_loading) =>
        \A r \in DetRequests : det_reqs[r].st # "pending"

----------------------------------------------------------------------------
\* Properties of machine creation and inline edit

\* Number of GET /machines requests in flight
NumGetMachines(reqs) ==
    Cardinality({i \in 1..Len(reqs) : reqs[i].kind = "getMachines"})

\* C24: the success handler of a creation resets the draft to its defaults
\* and puts exactly one more GET /machines in flight (in place of the POST);
\* the error handler keeps the draft, issues no request, sets loading false
\* and sets error to the backend detail or to the generic message.
C24_Step ==
    /\ MachCreateNext =>
          /\ newMachine' = [name |-> "", code |-> "", status |-> "setup",
                            target_rate_per_hour |-> 0]
          /\ NumGetMachines(mach_reqs') = NumGetMachines(mach_reqs) + 1
          /\ Len(mach_reqs') = Len(mach_reqs)
    /\ MachCreateError =>
          /\ newMachine' = newMachine
          /\ NumGetMachines(mach_reqs') = NumGetMachines(mach_reqs)
          /\ Len(mach_reqs') = Len(mach_reqs) - 1
          /\ mach_loading' = FALSE
          /\ mach_error' \in {Str(<<"window too large">>),
                              Str(<<"Creation impossible">>)}

C24_CreateOutcome == [][C24_Step]_vars

\* A creation failed without a backend detail: the entered values are still
\* in the draft, nothing is in flight, loading is false and the generic
\* message is shown.
C24_Witness ==
    /\ newMachine.name = "Presse"
    /\ newMachine.code = "P-1"
    /\ mach_reqs = <<>>
    /\ ~mach_loading
    /\ mach_error = Str(<<"Creation impossible">>)

\* C25: startEdit(m) sets editId to m.id and editForm to m's four editable
\* fields; a failed saveEdit leaves both unchanged; after cancelEdit or a
\* successful saveEdit editId is null and editForm is empty.
C25_Step ==
    /\ MachStartEdit =>
          \E i \in 1..Len(_machines) :
              /\ editId' = [tag |-> "number", val |-> <<_machines[i].id>>]
              /\ DOMAIN editForm' = {"name", "code", "status", "target_rate_per_hour"}
              /\ \A k \in DOMAIN editForm' : editForm'[k] = _machines[i][k]
    /\ MachSaveEditError => UNCHANGED <<editId, editForm>>
    /\ (MachCancelEdit \/ MachSaveEditNext) =>
          /\ editId' = Null
          /\ DOMAIN editForm' = {}

C25_EditState == [][C25_Step]_vars

----------------------------------------------------------------------------
\* Properties of the dashboard donut

\* The status a segment stands for: 0 Running, 1 Stopped, 2 Setup
SegmentStatus(index) ==
    CASE index = 0 -> "running"
      [] index = 1 -> "stopped"
      [] OTHER     -> "setup"

\* C23: a click on segment Running/Stopped/Setup requests a navigation to
\* /machines with status=running/stopped/setup, a click that hits no segment
\* requests none; when that navigation resolves the machines screen is the
\* activated one and its filter is that status.
C23_Step ==
    /\ DashClick =>
          IF dash_click'.activeEls = <<>> THEN dash_nav' = dash_nav
          ELSE dash_nav' = Append(dash_nav,
                   [path |-> <<"machines">>,
                    status |-> Str(<<SegmentStatus(dash_click'.activeEls[1])>>)])
    /\ DashNavResolve =>
          /\ activated' = "MachinesComponent"
          /\ queryStatus' = dash_nav[1].status
          /\ _filter' = dash_nav[1].status.val[1]

C23_DonutLeadsToFilter == [][C23_Step]_vars

\* The Stopped segment was clicked and the navigation has resolved: the
\* machines screen is shown with the filter stopped and its list loading.
C23_Witness ==
    /\ dash_click = [clicked |-> TRUE, activeEls |-> <<1>>]
    /\ dash_nav = <<>>
    /\ activated = "MachinesComponent"
    /\ queryStatus = Str(<<"stopped">>)
    /\ _filter = "stopped"
    /\ mach_pc = "ready"

====
